---- MODULE Spec2Model ----
(***************************************************************************)
(* A model of the dynasm-rs runtime (runtime/src/lib.rs): the Assembler    *)
(* with its scratch buffer and label/relocation tables, the commit and     *)
(* alter protocols over the shared RwLock<ExecutableBuffer>, the           *)
(* AssemblyModifier, and the Executor handles that read-lock the buffer.   *)
(*                                                                         *)
(* One Assembler thread runs the emission API, commit, alter and finalize; *)
(* the steps of commit and alter that touch the shared buffer (lock        *)
(* acquisition, protection flips, copies, the swap, the drop of the old    *)
(* mapping) are separate actions, so Executor threads interleave with      *)
(* them.  A panic unwinds the Assembler thread: it ends in pc =            *)
(* "panicked", a write guard it held is dropped (which poisons the lock),  *)
(* and nothing else is undone.                                             *)
(*                                                                         *)
(* Offsets are 0-based as in the source; sequences are 1-based, so the     *)
(* byte at offset p of a sequence s is s[p + 1].                           *)
(***************************************************************************)
EXTENDS Integers, Sequences, FiniteSets, TLC

\* ------------------------------------------------------------------ bounds
\* The largest offset() the emission actions may reach.
MaxCode == 4
\* The number of Executor handles that may exist at once.
MaxExecutors == 1
\* The number of relocation calls in a run.
MaxRelocs == 2

\* The number of calls of alter in a run.
MaxAlters == 1

\* Assembler::new's MMAP_INIT_SIZE (1024 * 256 in the source), scaled down so
\* that a commit can outgrow the mapping within MaxCode bytes.
MMAP_INIT_SIZE == 2

\* The byte values pushed: a nop and a short jump opcode.
Bytes == {144, 235}
\* The byte Assembler::align pads with (0x90).
NOP == 144
GlobalNames == {"g"}
LocalNames == {"l"}
LocalPair == {"l", "m"}
\* An offset further from any emitted byte than one signed byte can hold.
FarOffset == 300
\* The ids new_dynamic_label may hand out (the index into dynamic_labels).
DynamicIds == {0}
\* The widths patch_loc accepts, and the size arguments the relocation calls
\* are tried with (3 is a width patch_loc rejects).
PatchSizes == {1, 2, 4, 8}
RelocSizes == {1, 2, 3}
\* The sizes the relocation calls are tried with where every patch is to
\* succeed.
WideSizes == {1, 2, 4}
Alignments == {2, 4}
\* The byte sequences extend is tried with.
ExtendArgs == {<<235, 144>>}
\* A run of bytes longer than twice the initial mapping, and the bytes
\* emitted at most where it is used.
LongArgs == {<<235, 144, 144, 144, 144>>}
MaxLong == 6

\* ------------------------------------------------------------------- state
VARIABLES
    \* struct Assembler
    ops, asmoffset, map_len,
    global_labels, global_relocs,
    dynamic_labels, dynamic_relocs,
    local_labels, local_relocs,
    \* Arc<RwLock<ExecutableBuffer>>: the buffer, the lock, the other owners
    execbuffer, rwlock, executors,
    \* the Assembler thread: where it is, who called commit, and the locals
    \* of commit (buf_start, buf_end, new_buf, data) and alter (asmoffset)
    pc, caller, buf_start, buf_end, new_buf, data, saved_asmoffset,
    \* the panic that ended the Assembler thread, the result of finalize
    err, fin,
    \* mapping identities: the next fresh one, and those unmapped so far
    next_id, unmapped,
    \* history: the image the calls so far describe (per offset, the byte
    \* pushed there or the encoding patched over it); the patches applied so
    \* far, in order, and those of them no later write has touched; the
    \* calls of alter
    expect, applied, intact, alters

asmVars == <<ops, asmoffset, map_len, global_labels, global_relocs,
             dynamic_labels, dynamic_relocs, local_labels, local_relocs>>
sharedVars == <<execbuffer, rwlock, executors>>
ctlVars == <<pc, caller, buf_start, buf_end, new_buf, data, saved_asmoffset,
             err, fin>>
mapVars == <<next_id, unmapped>>
histVars == <<expect, applied, intact, alters>>
vars == <<asmVars, sharedVars, ctlVars, mapVars, histVars>>

\* ----------------------------------------------------------------- helpers
Max(a, b) == IF a >= b THEN a ELSE b

\* An anonymous mapping of n zero bytes.
Mmap_anonymous(n, prot, id) ==
    [bytes |-> [i \in 1..n |-> 0], prot |-> prot, id |-> id]

\* No mapping: the value of new_buf and data outside a growth commit.
NoMmap == [bytes |-> <<>>, prot |-> "none", id |-> 0]
NoBuffer == [length |-> 0, buffer |-> NoMmap]

\* s with the bytes bs written at offsets [lo, lo + Len(bs)).
copy_from_slice(s, lo, bs) ==
    [i \in 1..Len(s) |->
        IF i > lo /\ i <= lo + Len(bs) THEN bs[i - lo] ELSE s[i]]

\* The bytes most significant first: the order the label-resolution law
\* must exclude.
to_be_bytes(d, size) == [k \in 1..size |-> (d \div (256 ^ (size - k))) % 256]

\* (value as iN).to_le() transmuted to [u8; size]: byte k of the two's
\* complement of d, least significant first, truncated to size bytes.
to_le_bytes(d, size) == [k \in 1..size |-> (d \div (256 ^ (k - 1))) % 256]

\* ExecutableBuffer::as_mut_slice / deref: the first length bytes.
as_slice(eb) == SubSeq(eb.buffer.bytes, 1, eb.length)

\* A patch as the history records it.
PatchRec(loc, target) == <<loc[1], loc[2], target>>
\* The offsets of the field of a PatchLoc (end, size).
Field(loc) == {p \in 0..MaxCode + 8 : loc[1] - loc[2] <= p /\ p < loc[1]}

RECURSIVE SumLen(_, _)
SumLen(f, names) ==
    IF names = {} THEN 0
    ELSE LET n == CHOOSE x \in names : TRUE
         IN  Len(f[n]) + SumLen(f, names \ {n})

\* The relocations queued, over the three queues.
QueuedRelocs ==
    Len(global_relocs) + Len(dynamic_relocs)
    + SumLen(local_relocs, DOMAIN local_relocs)

\* HashMap::insert and HashMap::remove on a map kept as a function.
insert(map, k, v) == (k :> v) @@ map
remove(map, k) == [x \in DOMAIN map \ {k} |-> map[x]]

\* Option<usize> is kept as a set: {} is None, {t} is Some(t).
Some(t) == {t}
unwrap(opt) == CHOOSE t \in opt : TRUE

\* ------------------------------------------------------------ the history
\* The patches of a set whose field shares no offset with [lo, hi).
Untouched(recs, lo, hi) ==
    {r \in recs : \A p \in Field(<<r[1], r[2]>>) : p < lo \/ p >= hi}

RECURSIVE Expected(_, _)
\* The image after the patches of done, in order: each writes the encoding
\* of target - end into its field.
Expected(image, done) ==
    IF done = <<>> THEN image
    ELSE LET r == Head(done)
         IN  Expected(copy_from_slice(image, r[1] - r[2],
                                      to_le_bytes(r[3] - r[1], r[2])),
                      Tail(done))

RECURSIVE Intact(_, _)
\* The patches no later write has touched, after the patches of done.
Intact(recs, done) ==
    IF done = <<>> THEN recs
    ELSE LET r == Head(done)
         IN  Intact(Untouched(recs, r[1] - r[2], r[1]) \cup {r}, Tail(done))

\* The history after the patches of done.
Patched(done) ==
    /\ expect' = Expected(expect, done)
    /\ applied' = applied \o done
    /\ intact' = Intact(intact, done)

\* The relocations patched so far or still queued: the count MaxRelocs
\* bounds.
RelocCalls == QueuedRelocs + Len(applied)

\* ------------------------------------------------------------- panicking
\* The Assembler thread goes on.
Continue == pc' = pc /\ err' = err /\ rwlock' = rwlock

\* panic!: the Assembler thread unwinds. A write guard it holds (alter's) is
\* dropped while panicking, which releases and poisons the lock; the
\* protection of the mapping is left as it is.
Panic(kind) ==
    /\ pc' = "panicked"
    /\ err' = kind
    /\ rwlock' = IF rwlock.writer
                 THEN [rwlock EXCEPT !.writer = FALSE, !.poisoned = TRUE]
                 ELSE rwlock

Outcome(e) == IF e = "ok" THEN Continue ELSE Panic(e)

\* ------------------------------------------------------------- patch_loc
\* A patch_loc that takes the delta from the start of the field instead of
\* its end.
Assembler_patch_loc_FromStart(s, base, loc, target) ==
    LET buf_loc == loc[1] - base
        lo == buf_loc - loc[2]
    IN  IF buf_loc < 0 \/ lo < 0 \/ buf_loc > Len(s)
        THEN [err |-> "OutOfBounds", buf |-> s]
        ELSE IF loc[2] \notin PatchSizes
        THEN [err |-> "InvalidPatchSize", buf |-> s]
        ELSE [err |-> "ok",
              buf |-> copy_from_slice(s, lo,
                          to_le_bytes(target - (loc[1] - loc[2]), loc[2]))]

\* Assembler::patch_loc on the scratch buffer s that starts at offset base:
\* the slice ops[buf_loc - size .. buf_loc] (a bounds panic when it is not
\* inside ops), then the match on the size.
Assembler_patch_loc(s, base, loc, target) ==
    LET buf_loc == loc[1] - base
        lo == buf_loc - loc[2]
    IN  IF buf_loc < 0 \/ lo < 0 \/ buf_loc > Len(s)
        THEN [err |-> "OutOfBounds", buf |-> s]
        ELSE IF loc[2] \notin PatchSizes
        THEN [err |-> "InvalidPatchSize", buf |-> s]
        ELSE [err |-> "ok",
              buf |-> copy_from_slice(s, lo,
                          to_le_bytes(target - loc[1], loc[2]))]

\* AssemblyModifier::patch_loc on the ExecutableBuffer eb: the slice is taken
\* of as_mut_slice(), the first length bytes of the mapping.
Modifier_patch_loc(eb, loc, target) ==
    LET lo == loc[1] - loc[2]
    IN  IF lo < 0 \/ loc[1] > eb.length
        THEN [err |-> "OutOfBounds", buf |-> eb]
        ELSE IF loc[2] \notin PatchSizes
        THEN [err |-> "InvalidPatchSize", buf |-> eb]
        ELSE [err |-> "ok",
              buf |-> [eb EXCEPT !.buffer.bytes =
                          copy_from_slice(@, lo,
                              to_le_bytes(target - loc[1], loc[2]))]]

\* The storage a patch goes to: the Assembler's scratch buffer, or (inside
\* alter) the Modifier's ExecutableBuffer.
patch_loc(in_alter, st, base, loc, target) ==
    IF in_alter THEN Modifier_patch_loc(st, loc, target)
    ELSE Assembler_patch_loc(st, base, loc, target)

RECURSIVE patch_each(_, _, _, _, _)
\* The loop `for (loc, x) in relocs { patch_loc(loc, target) or panic }` over
\* relocs, a sequence of <<loc, Option target>>: the storage after it, the
\* panic that ended it, and the patches it applied.
patch_each(in_alter, st, base, relocs, unknown) ==
    IF relocs = <<>> THEN [err |-> "ok", buf |-> st, done |-> <<>>]
    ELSE LET loc == Head(relocs)[1]
             opt == Head(relocs)[2]
         IN  IF opt = {} THEN [err |-> unknown, buf |-> st, done |-> <<>>]
             ELSE LET r == patch_loc(in_alter, st, base, loc, unwrap(opt))
                  IN  IF r.err # "ok"
                      THEN [err |-> r.err, buf |-> st, done |-> <<>>]
                      ELSE LET rest == patch_each(in_alter, r.buf, base,
                                                  Tail(relocs), unknown)
                           IN  [err |-> rest.err, buf |-> rest.buf,
                                done |-> <<PatchRec(loc, unwrap(opt))>>
                                         \o rest.done]

\* self.global_labels.get(&name) and self.dynamic_labels.get(id.0).
global_get(name) ==
    IF name \in DOMAIN global_labels THEN Some(global_labels[name]) ELSE {}
dynamic_get(id) ==
    IF id + 1 \in DOMAIN dynamic_labels THEN dynamic_labels[id + 1] ELSE {}

\* encode_relocs, of the Assembler (on ops) and of the Modifier (on the
\* buffer): each queue is swapped out for an empty one and patched in order;
\* then any key left in local_relocs is a panic. The result names the
\* storage, the queues and the panic it ends with.
encode_relocs(in_alter, st, base) ==
    LET g == patch_each(in_alter, st, base,
                 [i \in 1..Len(global_relocs) |->
                     <<global_relocs[i][1], global_get(global_relocs[i][2])>>],
                 "UnknownGlobalLabel")
        d == patch_each(in_alter, g.buf, base,
                 [i \in 1..Len(dynamic_relocs) |->
                     <<dynamic_relocs[i][1],
                       dynamic_get(dynamic_relocs[i][2])>>],
                 "UnknownDynamicLabel")
    IN  IF g.err # "ok"
        THEN [err |-> g.err, buf |-> g.buf, done |-> g.done,
              global_relocs |-> <<>>, dynamic_relocs |-> dynamic_relocs]
        ELSE IF d.err # "ok"
        THEN [err |-> d.err, buf |-> d.buf, done |-> g.done \o d.done,
              global_relocs |-> <<>>, dynamic_relocs |-> <<>>]
        ELSE [err |-> IF DOMAIN local_relocs # {}
                      THEN "UnknownLocalLabel" ELSE "ok",
              buf |-> d.buf, done |-> g.done \o d.done,
              global_relocs |-> <<>>, dynamic_relocs |-> <<>>]

Assembler_encode_relocs == encode_relocs(FALSE, ops, asmoffset)
Modifier_encode_relocs == encode_relocs(TRUE, execbuffer, 0)

\* ---------------------------------------------------------- emission API
labelVars == <<global_labels, global_relocs, dynamic_labels, dynamic_relocs,
               local_labels, local_relocs>>
ctlLocals == <<caller, buf_start, buf_end, new_buf, data, saved_asmoffset,
               fin>>
\* What no emission operation touches.
EmitFrame == UNCHANGED <<map_len, executors, ctlLocals, mapVars, alters>>

\* Assembler::offset (AssemblyModifier::offset delegates to it).
offset == Len(ops) + asmoffset

\* The storage patch_loc writes, where the call is made.
Storage(in_alter) == IF in_alter THEN execbuffer ELSE ops
Store(in_alter, buf) ==
    IF in_alter THEN execbuffer' = buf /\ ops' = ops
    ELSE ops' = buf /\ execbuffer' = execbuffer

\* Assembler::push and Extend<u8> for Assembler: the bytes go to ops.
Assembler_extend_within(bs, max) ==
    /\ Len(expect) + Len(bs) <= max
    /\ ops' = ops \o bs
    /\ expect' = expect \o bs
    /\ Continue
    /\ EmitFrame
    /\ UNCHANGED <<asmoffset, labelVars, execbuffer, applied, intact>>

Assembler_extend(bs) == Assembler_extend_within(bs, MaxCode)

Assembler_push(value) == Assembler_extend(<<value>>)

\* Assembler::align, which AssemblyModifier::align delegates to: nops are
\* pushed (to ops) until offset() is a multiple of alignment.
Assembler_align(alignment) ==
    LET off == offset % alignment
    IN  Assembler_extend([i \in 1..(IF off # 0 THEN alignment - off ELSE 0)
                             |-> NOP])

\* AssemblyModifier::push, and Extend<u8> for AssemblyModifier, which pushes
\* byte by byte: each byte is written at as_mut_slice()[asmoffset], a bounds
\* panic when asmoffset is not below length, and asmoffset moves on by one.
Modifier_extend(bs) ==
    LET room == execbuffer.length - asmoffset
        n == IF room < 0 THEN 0 ELSE IF Len(bs) <= room THEN Len(bs) ELSE room
        written == SubSeq(bs, 1, n)
    IN  /\ execbuffer' = [execbuffer EXCEPT !.buffer.bytes =
                              copy_from_slice(@, asmoffset, written)]
        /\ asmoffset' = asmoffset + n
        /\ expect' = copy_from_slice(expect, asmoffset, written)
        /\ intact' = Untouched(intact, asmoffset, asmoffset + n)
        /\ Outcome(IF n < Len(bs) THEN "OutOfBounds" ELSE "ok")
        /\ EmitFrame
        /\ UNCHANGED <<ops, labelVars, applied>>

Modifier_push(value) == Modifier_extend(<<value>>)

\* AssemblyModifier::goto and check.
Modifier_goto(off) ==
    /\ asmoffset' = off
    /\ Continue
    /\ EmitFrame
    /\ UNCHANGED <<ops, labelVars, execbuffer, histVars>>

Modifier_check(off) ==
    /\ Outcome(IF asmoffset > off THEN "AlterOverflow" ELSE "ok")
    /\ EmitFrame
    /\ UNCHANGED <<ops, asmoffset, labelVars, execbuffer, histVars>>

\* global_label: HashMap::insert replaces the offset of a name already
\* defined, and then the duplicate panics.
global_label(name) ==
    /\ global_labels' = insert(global_labels, name, offset)
    /\ Outcome(IF name \in DOMAIN global_labels
               THEN "DuplicateGlobalLabel" ELSE "ok")
    /\ EmitFrame
    /\ UNCHANGED <<ops, asmoffset, global_relocs, dynamic_labels,
                   dynamic_relocs, local_labels, local_relocs, execbuffer,
                   histVars>>

global_reloc(name, size) ==
    /\ RelocCalls < MaxRelocs
    /\ global_relocs' = Append(global_relocs, <<(<<offset, size>>), name>>)
    /\ Continue
    /\ EmitFrame
    /\ UNCHANGED <<ops, asmoffset, global_labels, dynamic_labels,
                   dynamic_relocs, local_labels, local_relocs, execbuffer,
                   histVars>>

\* Assembler::new_dynamic_label.
new_dynamic_label ==
    /\ Len(dynamic_labels) < Cardinality(DynamicIds)
    /\ dynamic_labels' = Append(dynamic_labels, {})
    /\ Continue
    /\ EmitFrame
    /\ UNCHANGED <<ops, asmoffset, global_labels, global_relocs,
                   dynamic_relocs, local_labels, local_relocs, execbuffer,
                   histVars>>

\* dynamic_label: a defined entry panics before it is written.
dynamic_label(id) ==
    /\ id + 1 \in DOMAIN dynamic_labels
    /\ dynamic_labels' = IF dynamic_labels[id + 1] # {} THEN dynamic_labels
                         ELSE [dynamic_labels EXCEPT ![id + 1] = Some(offset)]
    /\ Outcome(IF dynamic_labels[id + 1] # {}
               THEN "DuplicateDynamicLabel" ELSE "ok")
    /\ EmitFrame
    /\ UNCHANGED <<ops, asmoffset, global_labels, global_relocs,
                   dynamic_relocs, local_labels, local_relocs, execbuffer,
                   histVars>>

dynamic_reloc(id, size) ==
    /\ id + 1 \in DOMAIN dynamic_labels
    /\ RelocCalls < MaxRelocs
    /\ dynamic_relocs' = Append(dynamic_relocs, <<(<<offset, size>>), id>>)
    /\ Continue
    /\ EmitFrame
    /\ UNCHANGED <<ops, asmoffset, global_labels, global_relocs,
                   dynamic_labels, local_labels, local_relocs, execbuffer,
                   histVars>>

\* local_label reading the queue of the name without removing it.
local_label_KeepsQueue(in_alter, name) ==
    LET relocs == IF name \in DOMAIN local_relocs
                  THEN local_relocs[name] ELSE <<>>
        r == patch_each(in_alter, Storage(in_alter), asmoffset,
                        [i \in 1..Len(relocs) |-> <<relocs[i], Some(offset)>>],
                        "ok")
    IN  /\ local_relocs' = local_relocs
        /\ Store(in_alter, r.buf)
        /\ local_labels' = IF r.err = "ok"
                           THEN insert(local_labels, name, offset)
                           ELSE local_labels
        /\ Patched(r.done)
        /\ Outcome(r.err)
        /\ EmitFrame
        /\ UNCHANGED <<asmoffset, global_labels, global_relocs,
                       dynamic_labels, dynamic_relocs>>

\* local_label, of the Assembler and of the Modifier: the queue of the name
\* is removed and each of its sites patched against this offset; then the
\* name's most recent definition is set.
local_label(in_alter, name) ==
    LET relocs == IF name \in DOMAIN local_relocs
                  THEN local_relocs[name] ELSE <<>>
        r == patch_each(in_alter, Storage(in_alter), asmoffset,
                        [i \in 1..Len(relocs) |-> <<relocs[i], Some(offset)>>],
                        "ok")
    IN  /\ local_relocs' = remove(local_relocs, name)
        /\ Store(in_alter, r.buf)
        /\ local_labels' = IF r.err = "ok"
                           THEN insert(local_labels, name, offset)
                           ELSE local_labels
        /\ Patched(r.done)
        /\ Outcome(r.err)
        /\ EmitFrame
        /\ UNCHANGED <<asmoffset, global_labels, global_relocs,
                       dynamic_labels, dynamic_relocs>>

forward_reloc(name, size) ==
    /\ RelocCalls < MaxRelocs
    /\ local_relocs' =
           IF name \in DOMAIN local_relocs
           THEN [local_relocs EXCEPT ![name] = Append(@, <<offset, size>>)]
           ELSE insert(local_relocs, name, <<(<<offset, size>>)>>)
    /\ Continue
    /\ EmitFrame
    /\ UNCHANGED <<ops, asmoffset, global_labels, global_relocs,
                   dynamic_labels, dynamic_relocs, local_labels, execbuffer,
                   histVars>>

\* backward_reloc queueing the site as forward_reloc does.
backward_reloc_Queues(in_alter, name, size) == forward_reloc(name, size)

\* backward_reloc, of the Assembler and of the Modifier: the field ending at
\* the current offset is patched at once against the name's definition.
backward_reloc(in_alter, name, size) ==
    LET r == IF name \in DOMAIN local_labels
             THEN patch_each(in_alter, Storage(in_alter), asmoffset,
                      <<(<< (<<offset, size>>), Some(local_labels[name]) >>)>>,
                      "ok")
             ELSE [err |-> "UnknownLocalLabel", buf |-> Storage(in_alter),
                   done |-> <<>>]
    IN  /\ RelocCalls < MaxRelocs
        /\ Store(in_alter, r.buf)
        /\ Patched(r.done)
        /\ Outcome(r.err)
        /\ EmitFrame
        /\ UNCHANGED <<asmoffset, labelVars>>

\* ------------------------------------------------------------------ commit
\* The variables a step of commit, alter or finalize leaves alone unless it
\* says otherwise.
StepFrame ==
    UNCHANGED <<labelVars, executors, err, fin, expect, applied, intact,
                alters>>
\* commit growing the mapping to what is wanted only, without doubling.
commit_GrowsToFit(who) ==
    LET start == asmoffset
        end == offset
        r == Assembler_encode_relocs
        len == end
    IN  /\ caller' = who
        /\ buf_start' = start
        /\ buf_end' = end
        /\ UNCHANGED <<asmoffset, global_labels, dynamic_labels, local_labels,
                       local_relocs, execbuffer, executors, data,
                       saved_asmoffset, fin, unmapped>>
        /\ IF start = end
           THEN /\ pc' = "commit_ret"
                /\ UNCHANGED <<ops, map_len, global_relocs, dynamic_relocs,
                               rwlock, new_buf, err, next_id, expect, applied,
                               intact>>
           ELSE /\ ops' = r.buf
                /\ global_relocs' = r.global_relocs
                /\ dynamic_relocs' = r.dynamic_relocs
                /\ Patched(r.done)
                /\ IF r.err # "ok"
                   THEN /\ Panic(r.err)
                        /\ UNCHANGED <<map_len, new_buf, next_id>>
                   ELSE IF end > map_len
                   THEN /\ new_buf' = Mmap_anonymous(len, "RW", next_id)
                        /\ next_id' = next_id + 1
                        /\ map_len' = len
                        /\ pc' = "commit_grow_copy"
                        /\ UNCHANGED <<rwlock, err>>
                   ELSE /\ pc' = "commit_fast_lock"
                        /\ UNCHANGED <<map_len, new_buf, next_id, rwlock, err>>

\* commit without its early return: with nothing emitted it still resolves
\* the queues and takes the lock.
commit_NoEarlyReturn(who) ==
    LET start == asmoffset
        end == offset
        r == Assembler_encode_relocs
        len == Max(end, map_len * 2)
    IN  /\ caller' = who
        /\ buf_start' = start
        /\ buf_end' = end
        /\ UNCHANGED <<asmoffset, global_labels, dynamic_labels, local_labels,
                       local_relocs, execbuffer, executors, data,
                       saved_asmoffset, fin, unmapped>>
        /\ ops' = r.buf
        /\ global_relocs' = r.global_relocs
        /\ dynamic_relocs' = r.dynamic_relocs
        /\ Patched(r.done)
        /\ IF r.err # "ok"
           THEN /\ Panic(r.err)
                /\ UNCHANGED <<map_len, new_buf, next_id>>
           ELSE IF end > map_len
           THEN /\ new_buf' = Mmap_anonymous(len, "RW", next_id)
                /\ next_id' = next_id + 1
                /\ map_len' = len
                /\ pc' = "commit_grow_copy"
                /\ UNCHANGED <<rwlock, err>>
           ELSE /\ pc' = "commit_fast_lock"
                /\ UNCHANGED <<map_len, new_buf, next_id, rwlock, err>>

\* Assembler::commit up to its first use of the lock: the early return when
\* nothing was emitted, encode_relocs, and on the growth branch the new
\* mapping and the update of map_len. who is the caller: "commit" (the
\* user), "alter" or "finalize".
commit(who) ==
    LET start == asmoffset
        end == offset
        r == Assembler_encode_relocs
        len == Max(end, map_len * 2)
    IN  /\ caller' = who
        /\ buf_start' = start
        /\ buf_end' = end
        /\ UNCHANGED <<asmoffset, global_labels, dynamic_labels, local_labels,
                       local_relocs, execbuffer, executors, data,
                       saved_asmoffset, fin, unmapped>>
        /\ IF start = end
           THEN /\ pc' = "commit_ret"
                /\ UNCHANGED <<ops, map_len, global_relocs, dynamic_relocs,
                               rwlock, new_buf, err, next_id, expect, applied,
                               intact>>
           ELSE /\ ops' = r.buf
                /\ global_relocs' = r.global_relocs
                /\ dynamic_relocs' = r.dynamic_relocs
                /\ Patched(r.done)
                /\ IF r.err # "ok"
                   THEN /\ Panic(r.err)
                        /\ UNCHANGED <<map_len, new_buf, next_id>>
                   ELSE IF end > map_len
                   THEN /\ new_buf' = Mmap_anonymous(len, "RW", next_id)
                        /\ next_id' = next_id + 1
                        /\ map_len' = len
                        /\ pc' = "commit_grow_copy"
                        /\ UNCHANGED <<rwlock, err>>
                   ELSE /\ pc' = "commit_fast_lock"
                        /\ UNCHANGED <<map_len, new_buf, next_id, rwlock, err>>

\* A lock that lets the writer in beside readers: what Executor pinning must
\* exclude.
CanWrite_BesideReaders == ~rwlock.writer

\* A write lock that also waits for every Executor handle to be dropped.
CanWrite_NoHandles ==
    ~rwlock.writer /\ DOMAIN rwlock.readers = {} /\ executors = {}

\* The write lock is free for the Assembler thread: std's RwLock::write
\* blocks while a read guard (or the write guard) is held.
CanWrite == ~rwlock.writer /\ DOMAIN rwlock.readers = {}

\* A growth branch that copies ops only, not the old mapping's bytes: what
\* the stability of committed code must exclude.
CommitGrowCopy_OpsOnly ==
    /\ pc = "commit_grow_copy"
    /\ ~rwlock.writer
    /\ new_buf' = [new_buf EXCEPT
           !.bytes = copy_from_slice(@, buf_start, ops),
           !.prot = "RX"]
    /\ pc' = "commit_grow_lock"
    /\ StepFrame
    /\ UNCHANGED <<ops, asmoffset, map_len, execbuffer, rwlock, caller,
                   buf_start, buf_end, data, saved_asmoffset, mapVars>>

\* growth: the old mapping's [..buf_start] (read under a read lock, released
\* at the end of the statement) and ops are copied into the new mapping,
\* which is then made ReadExecute.
CommitGrowCopy ==
    /\ pc = "commit_grow_copy"
    /\ ~rwlock.writer
    /\ new_buf' = [new_buf EXCEPT
           !.bytes = copy_from_slice(
                         copy_from_slice(@, 0,
                             SubSeq(execbuffer.buffer.bytes, 1, buf_start)),
                         buf_start, ops),
           !.prot = "RX"]
    /\ pc' = "commit_grow_lock"
    /\ StepFrame
    /\ UNCHANGED <<ops, asmoffset, map_len, execbuffer, rwlock, caller,
                   buf_start, buf_end, data, saved_asmoffset, mapVars>>

\* A growth branch that takes the write lock without waiting for the read
\* guards to go.
CommitGrowLock_NoWait ==
    /\ pc = "commit_grow_lock"
    /\ ~rwlock.writer
    /\ rwlock' = [rwlock EXCEPT !.writer = TRUE]
    /\ pc' = "commit_grow_swap"
    /\ StepFrame
    /\ UNCHANGED <<ops, asmoffset, map_len, execbuffer, caller, buf_start,
                   buf_end, new_buf, data, saved_asmoffset, mapVars>>

\* growth: self.execbuffer.write()
CommitGrowLock ==
    /\ pc = "commit_grow_lock"
    /\ CanWrite
    /\ rwlock' = [rwlock EXCEPT !.writer = TRUE]
    /\ pc' = "commit_grow_swap"
    /\ StepFrame
    /\ UNCHANGED <<ops, asmoffset, map_len, execbuffer, caller, buf_start,
                   buf_end, new_buf, data, saved_asmoffset, mapVars>>

\* growth: mem::swap(&mut data, &mut guard), data being the new
\* ExecutableBuffer { length: buf_end, buffer: new_buf }.
CommitGrowSwap ==
    /\ pc = "commit_grow_swap"
    /\ execbuffer' = [length |-> buf_end, buffer |-> new_buf]
    /\ data' = execbuffer
    /\ new_buf' = NoMmap
    /\ pc' = "commit_grow_unlock"
    /\ StepFrame
    /\ UNCHANGED <<ops, asmoffset, map_len, rwlock, caller, buf_start,
                   buf_end, saved_asmoffset, mapVars>>

\* growth: the write guard, a temporary of the swap statement, is dropped at
\* the end of that statement.
CommitGrowUnlock ==
    /\ pc = "commit_grow_unlock"
    /\ rwlock' = [rwlock EXCEPT !.writer = FALSE]
    /\ pc' = "commit_grow_drop"
    /\ StepFrame
    /\ UNCHANGED <<ops, asmoffset, map_len, execbuffer, caller, buf_start,
                   buf_end, new_buf, data, saved_asmoffset, mapVars>>

\* A growth branch after which ops is not cleared and asmoffset not moved:
\* what commit's postcondition must exclude.
CommitGrowDrop_KeepsOps ==
    /\ pc = "commit_grow_drop"
    /\ unmapped' = unmapped \cup {data.buffer.id}
    /\ data' = NoBuffer
    /\ pc' = "commit_ret"
    /\ StepFrame
    /\ UNCHANGED <<ops, asmoffset, map_len, execbuffer, rwlock, caller,
                   buf_start, buf_end, new_buf, saved_asmoffset, next_id>>

\* growth: data, now the old buffer, is dropped at the end of the branch (the
\* old mapping is unmapped); then ops.clear() and asmoffset = buf_end.
CommitGrowDrop ==
    /\ pc = "commit_grow_drop"
    /\ unmapped' = unmapped \cup {data.buffer.id}
    /\ data' = NoBuffer
    /\ ops' = <<>>
    /\ asmoffset' = buf_end
    /\ pc' = "commit_ret"
    /\ StepFrame
    /\ UNCHANGED <<map_len, execbuffer, rwlock, caller, buf_start, buf_end,
                   new_buf, saved_asmoffset, next_id>>

\* fast path: self.execbuffer.write()
CommitFastLock ==
    /\ pc = "commit_fast_lock"
    /\ CanWrite
    /\ rwlock' = [rwlock EXCEPT !.writer = TRUE]
    /\ pc' = "commit_fast_rw"
    /\ StepFrame
    /\ UNCHANGED <<ops, asmoffset, map_len, execbuffer, caller, buf_start,
                   buf_end, new_buf, data, saved_asmoffset, mapVars>>

\* fast path: set_protection(ReadWrite)
CommitFastSetRW ==
    /\ pc = "commit_fast_rw"
    /\ execbuffer' = [execbuffer EXCEPT !.buffer.prot = "RW"]
    /\ pc' = "commit_fast_copy"
    /\ StepFrame
    /\ UNCHANGED <<ops, asmoffset, map_len, rwlock, caller, buf_start,
                   buf_end, new_buf, data, saved_asmoffset, mapVars>>

\* A fast path that copies ops to the start of the buffer: what the round
\* trip must exclude.
CommitFastCopy_AtZero ==
    /\ pc = "commit_fast_copy"
    /\ execbuffer' = [execbuffer EXCEPT
           !.buffer.bytes = copy_from_slice(@, 0, ops)]
    /\ pc' = "commit_fast_rx"
    /\ StepFrame
    /\ UNCHANGED <<ops, asmoffset, map_len, rwlock, caller, buf_start,
                   buf_end, new_buf, data, saved_asmoffset, mapVars>>

\* fast path: as_mut_slice()[changed].copy_from_slice(&self.ops)
CommitFastCopy ==
    /\ pc = "commit_fast_copy"
    /\ execbuffer' = [execbuffer EXCEPT
           !.buffer.bytes = copy_from_slice(@, buf_start, ops)]
    /\ pc' = "commit_fast_rx"
    /\ StepFrame
    /\ UNCHANGED <<ops, asmoffset, map_len, rwlock, caller, buf_start,
                   buf_end, new_buf, data, saved_asmoffset, mapVars>>

\* A fast path that forgets set_protection(ReadExecute): what the protection
\* discipline must exclude.
CommitFastSetRX_Forgotten ==
    /\ pc = "commit_fast_rx"
    /\ pc' = "commit_fast_unlock"
    /\ StepFrame
    /\ UNCHANGED <<ops, asmoffset, map_len, execbuffer, rwlock, caller,
                   buf_start, buf_end, new_buf, data, saved_asmoffset, mapVars>>

\* fast path: set_protection(ReadExecute)
CommitFastSetRX ==
    /\ pc = "commit_fast_rx"
    /\ execbuffer' = [execbuffer EXCEPT !.buffer.prot = "RX"]
    /\ pc' = "commit_fast_unlock"
    /\ StepFrame
    /\ UNCHANGED <<ops, asmoffset, map_len, rwlock, caller, buf_start,
                   buf_end, new_buf, data, saved_asmoffset, mapVars>>

\* fast path: the length is raised to buf_end, the write guard is dropped at
\* the end of the branch; then ops.clear() and asmoffset = buf_end.
CommitFastUnlock ==
    /\ pc = "commit_fast_unlock"
    /\ execbuffer' = [execbuffer EXCEPT
           !.length = IF buf_end > @ THEN buf_end ELSE @]
    /\ rwlock' = [rwlock EXCEPT !.writer = FALSE]
    /\ ops' = <<>>
    /\ asmoffset' = buf_end
    /\ pc' = "commit_ret"
    /\ StepFrame
    /\ UNCHANGED <<map_len, caller, buf_start, buf_end, new_buf, data,
                   saved_asmoffset, mapVars>>

\* commit returns to the user.
CommitReturn ==
    /\ pc = "commit_ret"
    /\ caller = "commit"
    /\ pc' = "idle"
    /\ caller' = "none"
    /\ buf_start' = 0
    /\ buf_end' = 0
    /\ StepFrame
    /\ UNCHANGED <<ops, asmoffset, map_len, execbuffer, rwlock, new_buf, data,
                   saved_asmoffset, mapVars>>

\* ------------------------------------------------------------------- alter
\* alter, after its commit has returned: the offset is saved and set to 0.
AlterSave ==
    /\ pc = "commit_ret"
    /\ caller = "alter"
    /\ saved_asmoffset' = asmoffset
    /\ asmoffset' = 0
    /\ pc' = "alter_lock"
    /\ caller' = "none"
    /\ buf_start' = 0
    /\ buf_end' = 0
    /\ StepFrame
    /\ UNCHANGED <<ops, map_len, execbuffer, rwlock, new_buf, data, mapVars>>

\* alter: lock.write()
AlterLock ==
    /\ pc = "alter_lock"
    /\ CanWrite
    /\ rwlock' = [rwlock EXCEPT !.writer = TRUE]
    /\ pc' = "alter_rw"
    /\ StepFrame
    /\ UNCHANGED <<ops, asmoffset, map_len, execbuffer, caller, buf_start,
                   buf_end, new_buf, data, saved_asmoffset, mapVars>>

\* alter: set_protection(ReadWrite); the callback starts.
AlterSetRW ==
    /\ pc = "alter_rw"
    /\ execbuffer' = [execbuffer EXCEPT !.buffer.prot = "RW"]
    /\ pc' = "alter_cb"
    /\ StepFrame
    /\ UNCHANGED <<ops, asmoffset, map_len, rwlock, caller, buf_start,
                   buf_end, new_buf, data, saved_asmoffset, mapVars>>

\* alter: the callback has returned; m.encode_relocs().
AlterEncode ==
    LET r == Modifier_encode_relocs
    IN  /\ pc = "alter_cb"
        /\ execbuffer' = r.buf
        /\ global_relocs' = r.global_relocs
        /\ dynamic_relocs' = r.dynamic_relocs
        /\ Patched(r.done)
        /\ IF r.err # "ok" THEN Panic(r.err)
           ELSE pc' = "alter_rx" /\ UNCHANGED <<rwlock, err>>
        /\ UNCHANGED <<ops, asmoffset, map_len, global_labels, dynamic_labels,
                       local_labels, local_relocs, executors, ctlLocals,
                       mapVars, alters>>

\* alter: set_protection(ReadExecute)
AlterSetRX ==
    /\ pc = "alter_rx"
    /\ execbuffer' = [execbuffer EXCEPT !.buffer.prot = "RX"]
    /\ pc' = "alter_unlock"
    /\ StepFrame
    /\ UNCHANGED <<ops, asmoffset, map_len, rwlock, caller, buf_start,
                   buf_end, new_buf, data, saved_asmoffset, mapVars>>

\* An alter that returns without restoring the offset it saved.
AlterUnlock_KeepsOffset ==
    /\ pc = "alter_unlock"
    /\ asmoffset' = asmoffset
    /\ saved_asmoffset' = 0
    /\ rwlock' = [rwlock EXCEPT !.writer = FALSE]
    /\ pc' = "alter_ret"
    /\ StepFrame
    /\ UNCHANGED <<ops, map_len, execbuffer, caller, buf_start, buf_end,
                   new_buf, data, mapVars>>

\* alter: the saved offset is restored; the write guard is dropped as alter
\* returns.
AlterUnlock ==
    /\ pc = "alter_unlock"
    /\ asmoffset' = saved_asmoffset
    /\ saved_asmoffset' = 0
    /\ rwlock' = [rwlock EXCEPT !.writer = FALSE]
    /\ pc' = "alter_ret"
    /\ StepFrame
    /\ UNCHANGED <<ops, map_len, execbuffer, caller, buf_start, buf_end,
                   new_buf, data, mapVars>>

\* alter has returned to the user.
AlterReturn ==
    /\ pc = "alter_ret"
    /\ pc' = "idle"
    /\ StepFrame
    /\ UNCHANGED <<ops, asmoffset, map_len, execbuffer, rwlock, caller,
                   buf_start, buf_end, new_buf, data, saved_asmoffset,
                   mapVars>>

\* ---------------------------------------------------------------- finalize
\* A finalize that fails only while a read guard is held: what finalize's
\* contract must exclude.
FinalizeUnwrap_UnlessLocked ==
    /\ pc = "commit_ret"
    /\ caller = "finalize"
    /\ IF DOMAIN rwlock.readers = {}
       THEN pc' = "finalized" /\ fin' = "Ok"
       ELSE pc' = "finalize_err" /\ fin' = "Err"
    /\ caller' = "none"
    /\ buf_start' = 0
    /\ buf_end' = 0
    /\ UNCHANGED <<asmVars, sharedVars, new_buf, data, saved_asmoffset, err,
                   mapVars, histVars>>

\* finalize, after its commit has returned: Arc::try_unwrap succeeds when the
\* Assembler's is the only strong reference, that is when no Executor
\* exists; otherwise the Assembler is handed back.
FinalizeUnwrap ==
    /\ pc = "commit_ret"
    /\ caller = "finalize"
    /\ IF executors = {}
       THEN pc' = "finalized" /\ fin' = "Ok"
       ELSE pc' = "finalize_err" /\ fin' = "Err"
    /\ caller' = "none"
    /\ buf_start' = 0
    /\ buf_end' = 0
    /\ UNCHANGED <<asmVars, sharedVars, new_buf, data, saved_asmoffset, err,
                   mapVars, histVars>>

\* The caller goes on with the Assembler that finalize handed back.
FinalizeReturn ==
    /\ pc = "finalize_err"
    /\ pc' = "idle"
    /\ fin' = "none"
    /\ UNCHANGED <<asmVars, sharedVars, caller, buf_start, buf_end, new_buf,
                   data, saved_asmoffset, err, mapVars, histVars>>

\* ---------------------------------------------------------------- Executor
ExecutorIds == 1..MaxExecutors

\* Assembler::reader (the Assembler thread, between calls) and
\* Executor::clone (any thread holding a handle): one more owner of the Arc.
reader(e) ==
    /\ e \notin executors
    /\ ~(pc # "idle" /\ executors = {})
    /\ executors' = executors \cup {e}
    /\ UNCHANGED <<asmVars, execbuffer, rwlock, ctlVars, mapVars, histVars>>

\* Executor::lock: RwLock::read blocks while the write guard is held, and
\* its unwrap panics on a poisoned lock (no guard is handed out). The guard
\* is recorded with the mapping it dereferences to.
lock(e) ==
    /\ e \in executors
    /\ e \notin DOMAIN rwlock.readers
    /\ ~rwlock.writer
    /\ ~rwlock.poisoned
    /\ rwlock' = [rwlock EXCEPT
           !.readers = insert(@, e, execbuffer.buffer.id)]
    /\ UNCHANGED <<asmVars, execbuffer, executors, ctlVars, mapVars, histVars>>

\* The read guard is dropped.
unlock(e) ==
    /\ e \in DOMAIN rwlock.readers
    /\ rwlock' = [rwlock EXCEPT !.readers = remove(@, e)]
    /\ UNCHANGED <<asmVars, execbuffer, executors, ctlVars, mapVars, histVars>>

\* An Executor handle that holds no guard is dropped.
drop_executor(e) ==
    /\ e \in executors
    /\ e \notin DOMAIN rwlock.readers
    /\ executors' = executors \ {e}
    /\ UNCHANGED <<asmVars, execbuffer, rwlock, ctlVars, mapVars, histVars>>

\* ------------------------------------------------------ the specification
EmptyMap == [x \in {} |-> 0]

\* Assembler::new
Init ==
    /\ ops = <<>>
    /\ asmoffset = 0
    /\ map_len = MMAP_INIT_SIZE
    /\ global_labels = EmptyMap
    /\ global_relocs = <<>>
    /\ dynamic_labels = <<>>
    /\ dynamic_relocs = <<>>
    /\ local_labels = EmptyMap
    /\ local_relocs = EmptyMap
    /\ execbuffer = [length |-> 0,
                     buffer |-> Mmap_anonymous(MMAP_INIT_SIZE, "RX", 1)]
    /\ rwlock = [writer |-> FALSE, readers |-> EmptyMap, poisoned |-> FALSE]
    /\ executors = {}
    /\ pc = "idle"
    /\ caller = "none"
    /\ buf_start = 0
    /\ buf_end = 0
    /\ new_buf = NoMmap
    /\ data = NoBuffer
    /\ saved_asmoffset = 0
    /\ err = "ok"
    /\ fin = "none"
    /\ next_id = 2
    /\ unmapped = {}
    /\ expect = <<>>
    /\ applied = <<>>
    /\ intact = {}
    /\ alters = 0

\* A run uses labels of one kind: the calls about a kind of label are made
\* only while the tables of the other two kinds are untouched.
NoGlobal == DOMAIN global_labels = {} /\ global_relocs = <<>>
NoDynamic == dynamic_labels = <<>>
NoLocal == DOMAIN local_labels = {} /\ DOMAIN local_relocs = {}
UsesGlobal == NoDynamic /\ NoLocal
UsesDynamic == NoGlobal /\ NoLocal
UsesLocal == NoGlobal /\ NoDynamic

\* The calls made on the Assembler between commits; B and S are the byte
\* values and the relocation sizes the calls are tried with.
AsmPush(B) == \E b \in B : pc = "idle" /\ Assembler_push(b)
AsmExtend == \E bs \in ExtendArgs : pc = "idle" /\ Assembler_extend(bs)
AsmExtendLong ==
    \E bs \in LongArgs \cup {<<b>> : b \in Bytes} :
        pc = "idle" /\ Assembler_extend_within(bs, MaxLong)
AsmAlign == \E a \in Alignments : pc = "idle" /\ Assembler_align(a)
AsmGlobalLabel ==
    \E n \in GlobalNames : pc = "idle" /\ UsesGlobal /\ global_label(n)
AsmGlobalReloc(S) ==
    \E n \in GlobalNames, s \in S :
        pc = "idle" /\ UsesGlobal /\ global_reloc(n, s)
AsmNewDynamicLabel == pc = "idle" /\ UsesDynamic /\ new_dynamic_label
AsmDynamicLabel ==
    \E d \in DynamicIds : pc = "idle" /\ UsesDynamic /\ dynamic_label(d)
AsmDynamicReloc(S) ==
    \E d \in DynamicIds, s \in S :
        pc = "idle" /\ UsesDynamic /\ dynamic_reloc(d, s)
\* The calls about local labels, tried with the names of N.
AsmLocalLabelOf(N) ==
    \E n \in N : pc = "idle" /\ UsesLocal /\ local_label(FALSE, n)
AsmForwardRelocOf(N, S) ==
    \E n \in N, s \in S : pc = "idle" /\ UsesLocal /\ forward_reloc(n, s)
AsmBackwardRelocOf(N, S) ==
    \E n \in N, s \in S :
        pc = "idle" /\ UsesLocal /\ backward_reloc(FALSE, n, s)
AsmLocalLabel == AsmLocalLabelOf(LocalNames)
AsmForwardReloc(S) == AsmForwardRelocOf(LocalNames, S)
AsmBackwardReloc(S) == AsmBackwardRelocOf(LocalNames, S)
Commit == pc = "idle" /\ commit("commit") /\ alters' = alters
Alter ==
    /\ pc = "idle"
    /\ alters < MaxAlters
    /\ commit("alter")
    /\ alters' = alters + 1
Finalize == pc = "idle" /\ commit("finalize") /\ alters' = alters

\* The calls alter's callback makes on the AssemblyModifier.
ModGoto == \E off \in 0..MaxCode : pc = "alter_cb" /\ Modifier_goto(off)
ModGotoFar == pc = "alter_cb" /\ Modifier_goto(FarOffset)
ModCheck == \E off \in 0..MaxCode : pc = "alter_cb" /\ Modifier_check(off)
ModPush(B) == \E b \in B : pc = "alter_cb" /\ Modifier_push(b)
ModExtend == \E bs \in ExtendArgs : pc = "alter_cb" /\ Modifier_extend(bs)
ModAlign == \E a \in Alignments : pc = "alter_cb" /\ Assembler_align(a)
ModGlobalLabel ==
    \E n \in GlobalNames : pc = "alter_cb" /\ UsesGlobal /\ global_label(n)
ModGlobalReloc(S) ==
    \E n \in GlobalNames, s \in S :
        pc = "alter_cb" /\ UsesGlobal /\ global_reloc(n, s)
ModDynamicLabel ==
    \E d \in DynamicIds : pc = "alter_cb" /\ UsesDynamic /\ dynamic_label(d)
ModDynamicReloc(S) ==
    \E d \in DynamicIds, s \in S :
        pc = "alter_cb" /\ UsesDynamic /\ dynamic_reloc(d, s)
ModLocalLabelOf(N) ==
    \E n \in N : pc = "alter_cb" /\ UsesLocal /\ local_label(TRUE, n)
ModForwardRelocOf(N, S) ==
    \E n \in N, s \in S :
        pc = "alter_cb" /\ UsesLocal /\ forward_reloc(n, s)
ModBackwardRelocOf(N, S) ==
    \E n \in N, s \in S :
        pc = "alter_cb" /\ UsesLocal /\ backward_reloc(TRUE, n, s)
ModLocalLabel == ModLocalLabelOf(LocalNames)
ModForwardReloc(S) == ModForwardRelocOf(LocalNames, S)
ModBackwardReloc(S) == ModBackwardRelocOf(LocalNames, S)

Emit(B, S) ==
    \/ AsmPush(B) \/ AsmExtend \/ AsmAlign
    \/ AsmGlobalLabel \/ AsmGlobalReloc(S)
    \/ AsmNewDynamicLabel \/ AsmDynamicLabel \/ AsmDynamicReloc(S)
    \/ AsmLocalLabel \/ AsmForwardReloc(S) \/ AsmBackwardReloc(S)

CommitStep ==
    \/ CommitGrowCopy \/ CommitGrowLock \/ CommitGrowSwap
    \/ CommitGrowUnlock \/ CommitGrowDrop
    \/ CommitFastLock \/ CommitFastSetRW \/ CommitFastCopy
    \/ CommitFastSetRX \/ CommitFastUnlock
    \/ CommitReturn

AlterStep ==
    \/ AlterSave \/ AlterLock \/ AlterSetRW \/ AlterEncode
    \/ AlterSetRX \/ AlterUnlock \/ AlterReturn

Execute ==
    \E e \in ExecutorIds :
        reader(e) \/ lock(e) \/ unlock(e) \/ drop_executor(e)

\* The Assembler thread and the Executor threads: nops and one global label
\* are emitted, committed, altered and finalized while Executors come, lock,
\* unlock and go.
Next ==
    \/ AsmPush({NOP}) \/ AsmGlobalLabel \/ AsmGlobalReloc({1})
    \/ Commit \/ CommitStep
    \/ Alter \/ ModGoto \/ ModCheck \/ ModPush({NOP}) \/ AlterStep
    \/ Finalize \/ FinalizeUnwrap \/ FinalizeReturn
    \/ Execute

Spec == Init /\ [][Next]_vars

\* The steps the Assembler thread takes inside a call of commit, alter or
\* finalize, the return of alter's callback among them.
ThreadStep == CommitStep \/ AlterStep \/ FinalizeUnwrap

\* The threads without labels, the Assembler thread being scheduled: a step
\* of a call that stays possible is eventually taken. RwLock::write returns
\* once it finds the lock free; std::sync::RwLock promises no priority
\* between a waiting writer and new readers, so nothing more is assumed of
\* it, and nothing is assumed of what the Executors do.
NextLive ==
    \/ AsmPush({NOP})
    \/ Commit \/ CommitStep
    \/ Alter \/ ModGoto \/ AlterStep
    \/ Finalize \/ FinalizeUnwrap \/ FinalizeReturn
    \/ Execute

SpecLive == Init /\ [][NextLive]_vars /\ WF_vars(ThreadStep)

\* The Assembler alone: every emission call, with every kind of label, and
\* commit.
NextAsm == Emit(Bytes, RelocSizes) \/ Commit \/ CommitStep

SpecAsm == Init /\ [][NextAsm]_vars

\* The Assembler and its Modifier without labels: the byte emissions of
\* either, commit and alter.
NextAlter ==
    \/ AsmPush(Bytes) \/ AsmExtend \/ AsmAlign \/ Commit \/ CommitStep
    \/ Alter \/ ModGoto \/ ModCheck \/ ModPush(Bytes) \/ ModExtend \/ ModAlign
    \/ AlterStep

SpecAlter == Init /\ [][NextAlter]_vars

\* The Assembler and its Modifier with labels: nops, and labels and
\* relocations of every kind, on either; commit and alter.
NextPatch ==
    \/ AsmPush({NOP})
    \/ AsmGlobalLabel \/ AsmGlobalReloc(WideSizes)
    \/ AsmNewDynamicLabel \/ AsmDynamicLabel \/ AsmDynamicReloc(WideSizes)
    \/ AsmLocalLabel
    \/ AsmForwardReloc(WideSizes) \/ AsmBackwardReloc(WideSizes)
    \/ Commit \/ CommitStep
    \/ Alter \/ ModGoto \/ ModPush({NOP})
    \/ ModGlobalLabel \/ ModGlobalReloc(WideSizes)
    \/ ModDynamicLabel \/ ModDynamicReloc(WideSizes)
    \/ ModLocalLabel
    \/ ModForwardReloc(WideSizes) \/ ModBackwardReloc(WideSizes)
    \/ AlterStep

SpecPatch == Init /\ [][NextPatch]_vars

\* The Assembler and its Modifier with two local names: nops, local labels
\* and local relocations of one byte on either; commit and alter.
NextLocal ==
    \/ AsmPush({NOP})
    \/ AsmLocalLabelOf(LocalPair)
    \/ AsmForwardRelocOf(LocalPair, {1})
    \/ AsmBackwardRelocOf(LocalPair, {1})
    \/ Commit \/ CommitStep
    \/ Alter \/ ModGoto
    \/ ModLocalLabelOf(LocalPair)
    \/ ModForwardRelocOf(LocalPair, {1})
    \/ ModBackwardRelocOf(LocalPair, {1})
    \/ AlterStep

SpecLocal == Init /\ [][NextLocal]_vars

\* The Assembler and its Modifier with a global label that the Modifier can
\* define far from the code (goto takes any offset): nops, the label and its
\* references of one and two bytes on either; commit and alter.
NextFar ==
    \/ AsmPush({NOP}) \/ AsmGlobalReloc({1, 2})
    \/ Commit \/ CommitStep
    \/ Alter \/ ModGoto \/ ModGotoFar
    \/ ModGlobalLabel \/ ModGlobalReloc({1, 2})
    \/ AlterStep

SpecFar == Init /\ [][NextFar]_vars

\* The Assembler growing its mapping more than once: single bytes and a run
\* longer than twice the initial mapping are emitted, committed and altered
\* while Executors lock and unlock.
NextGrow ==
    \/ AsmExtendLong
    \/ Commit \/ CommitStep
    \/ Alter \/ ModGoto \/ ModPush({NOP}) \/ AlterStep
    \/ Execute

SpecGrow == Init /\ [][NextGrow]_vars

\* ------------------------------------------------------------ the claims
\* The places of the Assembler thread where it holds the write guard with
\* the mapping ReadWrite.
WritingPcs == {"commit_fast_copy", "commit_fast_rx", "alter_cb", "alter_rx"}

Prot == execbuffer.buffer.prot
ReadGuards == DOMAIN rwlock.readers

C2_Pinning ==
    /\ [](\A e \in ReadGuards :
             /\ rwlock.readers[e] = execbuffer.buffer.id
             /\ rwlock.readers[e] \notin unmapped
             /\ ~rwlock.writer)
    /\ [][ReadGuards # {} =>
             /\ execbuffer' = execbuffer
             /\ pc \in {"commit_grow_lock", "commit_fast_lock", "alter_lock"}
                    => pc' = pc]_vars

\* C2's case: a growth commit has built its new mapping and waits for the
\* write lock while a read guard is held.
C2_Witness ==
    /\ pc = "commit_grow_lock"
    /\ ReadGuards # {}
    /\ new_buf.id # execbuffer.buffer.id

\* The PatchLocs queued, over the three queues.
QueuedLocs ==
    {global_relocs[i][1] : i \in DOMAIN global_relocs}
    \cup {dynamic_relocs[i][1] : i \in DOMAIN dynamic_relocs}
    \cup UNION {{local_relocs[n][i] : i \in DOMAIN local_relocs[n]} :
                   n \in DOMAIN local_relocs}

\* The queued PatchLocs whose field lies inside the committed bytes.
UnpatchedFields ==
    {loc \in QueuedLocs : loc[1] - loc[2] >= 0 /\ loc[1] <= execbuffer.length}

\* C3, as stated: a read guard never sees the buffer change; once a commit
\* or an alter has done its work, a read guard sees no relocation field in
\* [0, length) that is still unpatched; and after a commit has returned the
\* buffer holds everything emitted before it.
C3_Stated ==
    /\ [][ReadGuards # {} => execbuffer' = execbuffer]_vars
    /\ []((ReadGuards # {} /\ pc \in {"commit_ret", "alter_ret"})
             => UnpatchedFields = {})
    /\ [](pc = "commit_ret" => as_slice(execbuffer) = expect)

\* C4: when a call of commit returns, ops is empty and asmoffset equals
\* execbuffer.length, whatever emissions, commits and alters preceded it.
C4_CommitPost ==
    pc = "commit_ret" => ops = <<>> /\ asmoffset = execbuffer.length

\* C4's case: a commit that had bytes to publish returns after an alter.
C4_Witness ==
    /\ pc = "commit_ret"
    /\ caller = "commit"
    /\ alters > 0
    /\ buf_end > buf_start

\* C5: when a commit returns, the buffer's bytes [0, offset) are the bytes
\* pushed so far, in order, with the fields of the patches applied holding
\* their encodings: the image the calls describe.
C5_RoundTrip ==
    pc = "commit_ret" =>
        /\ offset = Len(expect)
        /\ execbuffer.length = offset
        /\ SubSeq(execbuffer.buffer.bytes, 1, offset) = expect

\* C5's case: a commit returns after the mapping grew, with MaxCode bytes
\* pushed over several commits and a relocation patched.
C5_Witness ==
    /\ pc = "commit_ret"
    /\ Len(expect) = MaxCode
    /\ execbuffer.buffer.id > 1
    /\ buf_start > 0
    /\ applied # <<>>

RECURSIVE TwosComplementLE(_, _)
\* The little-endian two's complement of d in size bytes: the low byte of d
\* (its residue modulo 256), then the encoding of the rest in size - 1 bytes.
TwosComplementLE(d, size) ==
    IF size = 0 THEN <<>>
    ELSE <<d % 256>> \o TwosComplementLE((d - (d % 256)) \div 256, size - 1)

\* The offsets at which a label is defined.
LabelOffsets ==
    {global_labels[n] : n \in DOMAIN global_labels}
    \cup UNION {dynamic_labels[i] : i \in DOMAIN dynamic_labels}
    \cup {local_labels[n] : n \in DOMAIN local_labels}

\* The field of each patch of recs holds the encoding of target - end.
FieldsHold(recs) ==
    \A r \in recs :
        /\ r[2] \in PatchSizes
        /\ r[1] - r[2] >= 0
        /\ r[1] <= execbuffer.length
        /\ SubSeq(execbuffer.buffer.bytes, r[1] - r[2] + 1, r[1])
               = TwosComplementLE(r[3] - r[1], r[2])

\* A step that applies patches resolves each against a label's offset (that
\* of a defined label, or the current offset for the local label being
\* defined) and changes no byte, of ops or of the buffer, outside the
\* patches' fields.
PatchStep ==
    LET new == {applied'[i] : i \in Len(applied) + 1..Len(applied')}
        Covered(p) == \E r \in new : p \in Field(<<r[1], r[2]>>)
    IN  new # {} =>
            /\ \A r \in new : r[3] \in LabelOffsets' \cup {offset}
            /\ Len(ops') = Len(ops)
            /\ \A i \in DOMAIN ops :
                   ops'[i] # ops[i] => Covered(asmoffset + i - 1)
            /\ execbuffer'.length = execbuffer.length
            /\ \A i \in DOMAIN execbuffer.buffer.bytes :
                   execbuffer'.buffer.bytes[i] # execbuffer.buffer.bytes[i]
                       => Covered(i - 1)

\* C6, as stated: for every reference recorded at (end, size) to a label
\* defined at T, after the enclosing commit (or alter) the bytes
\* [end - size, end) hold the little-endian two's complement of T - end, and
\* the patch changes no byte outside its field.
C6_Stated ==
    /\ [](pc \in {"commit_ret", "alter_ret"}
             => FieldsHold({applied[i] : i \in DOMAIN applied}))
    /\ [][PatchStep]_vars

\* C6, amended: the same for every reference whose field no later write (the
\* patch of an overlapping reference, or a Modifier's push) has touched.
C6_LabelLaw ==
    /\ [](pc \in {"commit_ret", "alter_ret"} => FieldsHold(intact))
    /\ [][PatchStep]_vars

\* C6's case: a commit or an alter returns with a two-byte field holding a
\* negative displacement and a one-byte field holding a positive one.
C6_Witness ==
    /\ pc \in {"commit_ret", "alter_ret"}
    /\ \E r \in intact : r[2] = 2 /\ r[3] < r[1]
    /\ \E r \in intact : r[2] = 1 /\ r[3] > r[1]

\* C7, as stated: whenever commit or alter returns, the global and dynamic
\* relocation queues and every local forward-relocation queue are empty.
C7_Stated ==
    pc \in {"commit_ret", "alter_ret"} =>
        /\ global_relocs = <<>>
        /\ dynamic_relocs = <<>>
        /\ DOMAIN local_relocs = {}

\* C8: no step outside alter's callback and its encode_relocs (no emission,
\* patch or step of commit) changes a byte of [0, length) or lowers length;
\* the mapping a growth commit swaps in holds the old bytes of [0, length).
C8_Stable ==
    [][pc # "alter_cb" =>
          /\ execbuffer'.length >= execbuffer.length
          /\ SubSeq(execbuffer'.buffer.bytes, 1, execbuffer.length)
                 = as_slice(execbuffer)]_vars

\* C8's case: a growth commit has swapped in its new mapping over committed
\* bytes, after a relocation was patched.
C8_Witness ==
    /\ pc = "commit_grow_unlock"
    /\ data.length > 0
    /\ data.buffer.id # execbuffer.buffer.id
    /\ applied # <<>>

C10_Stated ==
    /\ [][pc = "alter_cb" =>
             ops' = ops /\ execbuffer'.length = execbuffer.length]_vars
    /\ [](pc = "alter_ret" =>
             ops = <<>> /\ execbuffer.length = asmoffset)

\* The forward references queued under a local name.
QueueOf(n) == IF n \in DOMAIN local_relocs THEN local_relocs[n] ELSE <<>>
\* A call of forward_reloc and of local_label, on the Assembler or on the
\* Modifier of an alter.
ForwardRelocCall(n, s) == pc \in {"idle", "alter_cb"} /\ forward_reloc(n, s)
LocalLabelCall(n) ==
    \/ pc = "idle" /\ local_label(FALSE, n)
    \/ pc = "alter_cb" /\ local_label(TRUE, n)
\* The patches of the sites of a queue against one target, in queue order.
SitesAgainst(q, target) ==
    [i \in 1..Len(q) |-> PatchRec(q[i], target)]

\* C11: forward_reloc(name, size) appends the site (offset, size) to the
\* queue of name and touches nothing else; local_label(name) removes the
\* queue of name and leaves the queue of every other name as it was, and
\* when it returns it has patched exactly the sites that were queued under
\* name, in order, each against the offset of this definition, and recorded
\* that offset as the definition of name; so a later definition of the same
\* name finds only the references queued after this one.
C11_LocalQueues ==
    [][\A n \in LocalPair :
          /\ \A s \in RelocSizes :
                ForwardRelocCall(n, s) =>
                    /\ QueueOf(n)' = Append(QueueOf(n), <<offset, s>>)
                    /\ \A m \in LocalPair \ {n} :
                           /\ QueueOf(m)' = QueueOf(m)
                           /\ m \in DOMAIN local_relocs'
                                  <=> m \in DOMAIN local_relocs
                    /\ local_labels' = local_labels
                    /\ applied' = applied
                    /\ ops' = ops /\ execbuffer' = execbuffer
          /\ LocalLabelCall(n) =>
                    /\ n \notin DOMAIN local_relocs'
                    /\ \A m \in LocalPair \ {n} :
                           /\ QueueOf(m)' = QueueOf(m)
                           /\ m \in DOMAIN local_relocs'
                                  <=> m \in DOMAIN local_relocs
                    /\ pc' # "panicked" =>
                           /\ applied' =
                                  applied \o SitesAgainst(QueueOf(n), offset)
                           /\ DOMAIN local_labels'
                                  = DOMAIN local_labels \cup {n}
                           /\ local_labels'[n] = offset
                           /\ \A m \in DOMAIN local_labels \ {n} :
                                  local_labels'[m] = local_labels[m]
      ]_vars

\* C11, witness: the name l has been defined twice at different offsets, and
\* each definition has patched one forward reference (its target lies after
\* the site), the second one queued after the first definition.
C11_Witness ==
    /\ pc \in {"idle", "alter_cb"}
    /\ Len(applied) = 2
    /\ DOMAIN local_labels = {"l"}
    /\ applied[1][3] > applied[1][1]
    /\ applied[2][3] > applied[2][1]
    /\ applied[1][3] < applied[2][3]
    /\ local_labels["l"] = applied[2][3]

\* A call of backward_reloc, on the Assembler or on the Modifier of an alter.
BackwardRelocCall(n, s) ==
    \/ pc = "idle" /\ backward_reloc(FALSE, n, s)
    \/ pc = "alter_cb" /\ backward_reloc(TRUE, n, s)
\* The bytes of the field (end, size) in the storage the call writes: ops
\* on the Assembler, the buffer in an alter.
FieldBytes(end, size) ==
    IF pc = "alter_cb"
    THEN SubSeq(execbuffer.buffer.bytes, end - size + 1, end)
    ELSE SubSeq(ops, end - size - asmoffset + 1, end - asmoffset)
\* The field (end, size) lies in the storage the call can write: the bytes
\* emitted since the last commit on the Assembler, the buffer in an alter.
FieldInStorage(end, size) ==
    IF pc = "alter_cb"
    THEN 0 <= end - size /\ end <= execbuffer.length
    ELSE asmoffset <= end - size

\* C12: backward_reloc(name, size) queues nothing and changes no label; when
\* name has no definition it fails with UnknownLocalLabel and writes nothing;
\* when name is defined it never fails with UnknownLocalLabel, and unless it
\* panics it has patched, within the call, the field ending at the current
\* offset against the most recent definition of name; with a size of 1, 2,
\* 4 or 8 and the field inside the writable storage it does not panic.
C12_Backward ==
    [][\A n \in LocalPair, s \in RelocSizes :
          BackwardRelocCall(n, s) =>
              /\ labelVars' = labelVars
              /\ IF n \notin DOMAIN local_labels
                 THEN /\ pc' = "panicked" /\ err' = "UnknownLocalLabel"
                      /\ applied' = applied
                      /\ ops' = ops /\ execbuffer' = execbuffer
                 ELSE /\ err' # "UnknownLocalLabel"
                      /\ (s \in PatchSizes /\ FieldInStorage(offset, s))
                             => pc' # "panicked"
                      /\ pc' # "panicked" =>
                             /\ applied' = Append(applied,
                                    <<offset, s, local_labels[n]>>)
                             /\ FieldBytes(offset, s)' =
                                    TwosComplementLE(local_labels[n] - offset,
                                                     s)
      ]_vars

\* C12, witness: on the Assembler, a backward reference in the bytes emitted
\* since the last commit has been patched against a definition that precedes
\* that commit.
C12_Witness ==
    /\ pc = "idle"
    /\ Len(applied) = 1
    /\ applied[1][3] < asmoffset
    /\ applied[1][1] > asmoffset
    /\ FieldBytes(applied[1][1], 1) = <<(applied[1][3] - applied[1][1]) % 256>>

\* A call of global_label and of dynamic_label, on the Assembler or (by
\* delegation) on the Modifier of an alter.
GlobalLabelCall(n) == pc \in {"idle", "alter_cb"} /\ global_label(n)
DynamicLabelCall(d) == pc \in {"idle", "alter_cb"} /\ dynamic_label(d)

\* C13, as stated: a global_label or dynamic_label call for a label that is
\* already defined is rejected with DuplicateGlobalLabel or
\* DuplicateDynamicLabel, and no step replaces the offset a global or
\* dynamic label was first defined with.
C13_Stated ==
    [][/\ \A n \in GlobalNames :
             (GlobalLabelCall(n) /\ n \in DOMAIN global_labels)
                 => pc' = "panicked" /\ err' = "DuplicateGlobalLabel"
       /\ \A d \in DynamicIds :
             (DynamicLabelCall(d) /\ dynamic_get(d) # {})
                 => pc' = "panicked" /\ err' = "DuplicateDynamicLabel"
       /\ \A n \in DOMAIN global_labels :
             /\ n \in DOMAIN global_labels'
             /\ global_labels'[n] = global_labels[n]
       /\ \A i \in DOMAIN dynamic_labels :
             dynamic_labels[i] # {} =>
                 /\ i \in DOMAIN dynamic_labels'
                 /\ dynamic_labels'[i] = dynamic_labels[i]
      ]_vars

\* The signed delta d fits a field of size bytes (fields of four bytes and
\* more hold every delta of the model).
SignedFits(d, size) ==
    /\ size = 1 => -128 <= d /\ d <= 127
    /\ size = 2 => -32768 <= d /\ d <= 32767

\* C14, as stated: no patch is ever written whose delta target - end does
\* not fit the signed range of its field (such a patch fails with
\* ImpossibleRelocation instead of writing a truncated value).
C14_Stated ==
    \A i \in DOMAIN applied :
        SignedFits(applied[i][3] - applied[i][1], applied[i][2])

\* C15, as stated: when relocation resolution fails during a commit (the
\* user's, or the one alter starts with) or during alter's own
\* encode_relocs, the three queues, the label tables, ops and asmoffset
\* have the values they had before the call.
C15_Stated ==
    [][((Commit \/ Alter \/ AlterEncode) /\ pc' = "panicked")
          => labelVars' = labelVars /\ ops' = ops /\ asmoffset' = asmoffset
      ]_vars

\* A call of global_reloc and of dynamic_reloc, on the Assembler or (by
\* delegation) on the Modifier of an alter.
GlobalRelocCall(n, s) == pc \in {"idle", "alter_cb"} /\ global_reloc(n, s)
DynamicRelocCall(d, s) == pc \in {"idle", "alter_cb"} /\ dynamic_reloc(d, s)

\* C16, as stated: every call of global_reloc, dynamic_reloc, forward_reloc
\* or backward_reloc with a size other than 1, 2, 4, 8 ends in a runtime
\* error, and no relocation of such a size is ever in a queue (so none is
\* there when a commit returns).
C16_Stated ==
    /\ [](\A loc \in QueuedLocs : loc[2] \in PatchSizes)
    /\ [][\A s \in RelocSizes \ PatchSizes :
             /\ \A n \in GlobalNames :
                    GlobalRelocCall(n, s) => pc' = "panicked"
             /\ \A d \in DynamicIds :
                    DynamicRelocCall(d, s) => pc' = "panicked"
             /\ \A n \in LocalNames :
                    /\ ForwardRelocCall(n, s) => pc' = "panicked"
                    /\ BackwardRelocCall(n, s) => pc' = "panicked"
        ]_vars

FreshWith(bs) ==
    /\ pc = "idle" /\ asmoffset = 0 /\ execbuffer.length = 0
    /\ ops = bs /\ applied = <<>>
\* The state in which the backward reference of the example is made: l is
\* defined at 2 and nothing is queued.
BackwardExample(bs) ==
    /\ FreshWith(bs)
    /\ local_labels = ("l" :> 2)
    /\ QueuedRelocs = 0
    /\ BackwardRelocCall("l", 1)
\* The state in which the forward reference of the example is resolved: one
\* site of size 1 ending at end is queued under l, which has no definition.
ForwardExample(bs, end) ==
    /\ FreshWith(bs)
    /\ DOMAIN local_labels = {}
    /\ local_relocs = ("l" :> <<(<<end, 1>>)>>)
    /\ LocalLabelCall("l")

\* C18, as stated: after push 0x90 twice, local_label(l), push 0xEB, the call
\* backward_reloc(l, 1) leaves the four bytes 90 90 EB FC to be committed;
\* after push 0xEB, forward_reloc(l, 1), push 0x90 three times, the call
\* local_label(l) leaves the five bytes EB 03 90 90 90 to be committed.
C18_Stated ==
    [][/\ BackwardExample(<<144, 144, 235>>)
             => ops' = <<144, 144, 235, 252>>
       /\ ForwardExample(<<235, 144, 144, 144>>, 1)
             => ops' = <<235, 3, 144, 144, 144>>
      ]_vars

\* C18, amended: the field of a size-1 relocation is the last byte pushed
\* before the call. In the sequences of the claim that byte is the opcode,
\* which the patch overwrites: three bytes 90 90 FF and four bytes
\* 03 90 90 90 are left to be committed. With a placeholder byte pushed
\* after the opcode the opcode is kept and the placeholder becomes the
\* displacement: 90 90 EB FE, and EB 02 90 90.
C18_Examples ==
    [][/\ BackwardExample(<<144, 144, 235>>)
             => ops' = <<144, 144, 255>> /\ expect' = ops'
       /\ ForwardExample(<<235, 144, 144, 144>>, 1)
             => ops' = <<3, 144, 144, 144>> /\ expect' = ops'
       /\ BackwardExample(<<144, 144, 235, 144>>)
             => ops' = <<144, 144, 235, 254>> /\ expect' = ops'
       /\ ForwardExample(<<235, 144, 144, 144>>, 2)
             => ops' = <<235, 2, 144, 144>> /\ expect' = ops'
      ]_vars

\* C18, witness: the backward example of the claim has been run up to its
\* backward_reloc, which has written FF over the opcode.
C18_Witness ==
    /\ pc = "idle" /\ asmoffset = 0
    /\ local_labels = ("l" :> 2)
    /\ applied = <<(<<3, 1, 2>>)>>
    /\ ops = <<144, 144, 255>>

\* C19, as stated: finalize fails only if an Executor holds a read guard at
\* that moment; with Executor handles alive but none of them locked it
\* yields the buffer.
C19_Stated ==
    [][FinalizeUnwrap =>
          /\ fin' = "Err" => ReadGuards # {}
          /\ (executors # {} /\ ReadGuards = {}) => fin' = "Ok"
      ]_vars

\* No read guard refers to the mapping of the buffer the growth branch has
\* swapped out.
OldUnreferenced ==
    /\ data.buffer.id # execbuffer.buffer.id
    /\ \A e \in ReadGuards : rwlock.readers[e] # data.buffer.id

\* C20, as stated: the growth branch drops the old buffer while it still
\* holds the write lock it took for the swap, and at that instant no read
\* guard refers to the old mapping.
C20_Stated ==
    [][CommitGrowDrop => rwlock.writer /\ OldUnreferenced]_vars

\* C20, amended: the growth branch takes the write lock, swaps the new
\* buffer in, releases the lock and only then drops the old buffer; the
\* lock is held across the swap, it is free when the old mapping is
\* dropped, nothing but that step drops a mapping, and at that instant no
\* read guard refers to the old mapping (a guard taken since the release
\* refers to the new one).
C20_DropOrder ==
    /\ [][/\ CommitGrowSwap => rwlock.writer /\ rwlock'.writer
          /\ CommitGrowUnlock =>
                 rwlock.writer /\ ~rwlock'.writer /\ unmapped' = unmapped
          /\ CommitGrowDrop =>
                 /\ ~rwlock.writer
                 /\ OldUnreferenced
                 /\ unmapped' = unmapped \cup {data.buffer.id}
          /\ unmapped' # unmapped => pc = "commit_grow_drop"
       ]_vars
    /\ [](pc = "commit_grow_drop" => ~rwlock.writer /\ OldUnreferenced)

\* C20, witness: the old buffer, which held code, is about to be dropped
\* while an Executor already holds a read guard, taken after the release,
\* over the new mapping.
C20_Witness ==
    /\ pc = "commit_grow_drop"
    /\ data.length > 0
    /\ ReadGuards # {}
    /\ \A e \in ReadGuards : rwlock.readers[e] = execbuffer.buffer.id

\* The places of the fast path and of the growth branch up to its swap.
FastPcs == {"commit_fast_lock", "commit_fast_rw", "commit_fast_copy",
            "commit_fast_rx", "commit_fast_unlock"}
GrowPcs == {"commit_grow_copy", "commit_grow_lock", "commit_grow_swap"}
\* The size of the mapping installed in the ExecutableBuffer.
MapSize == Len(execbuffer.buffer.bytes)
\* commit is entered: by the user, by alter or by finalize.
CommitCall == Commit \/ Alter \/ Finalize

\* C21: a commit whose buf_end is at most map_len takes the fast path, never
\* replaces the mapping and leaves length the larger of length and buf_end;
\* a commit whose buf_end exceeds map_len makes a new mapping of at least
\* buf_end and at least twice the old map_len bytes, and its swap installs
\* it with the old bytes [0, buf_start), then the scratch bytes, and
\* length = buf_end; no other step changes length or the mapping.
C21_Sizing ==
    /\ [][/\ (CommitCall /\ pc' # "panicked") =>
                 IF offset = asmoffset
                 THEN pc' = "commit_ret" /\ execbuffer' = execbuffer
                 ELSE IF offset <= map_len
                 THEN /\ pc' = "commit_fast_lock"
                      /\ map_len' = map_len
                      /\ new_buf' = NoMmap
                 ELSE /\ pc' = "commit_grow_copy"
                      /\ Len(new_buf'.bytes) >= offset
                      /\ Len(new_buf'.bytes) >= 2 * map_len
                      /\ map_len' = Len(new_buf'.bytes)
          /\ pc \in FastPcs =>
                 /\ execbuffer'.buffer.id = execbuffer.buffer.id
                 /\ MapSize' = MapSize
                 /\ map_len' = map_len
          /\ CommitFastUnlock =>
                 execbuffer'.length = IF execbuffer.length >= buf_end
                                      THEN execbuffer.length ELSE buf_end
          /\ CommitGrowSwap =>
                 /\ execbuffer'.buffer.id # execbuffer.buffer.id
                 /\ MapSize' >= buf_end
                 /\ MapSize' >= 2 * MapSize
                 /\ MapSize' = map_len
                 /\ execbuffer'.length = buf_end
                 /\ SubSeq(execbuffer'.buffer.bytes, 1, buf_start)
                        = SubSeq(execbuffer.buffer.bytes, 1, buf_start)
                 /\ SubSeq(execbuffer'.buffer.bytes, buf_start + 1, buf_end)
                        = ops
          /\ execbuffer'.length # execbuffer.length =>
                 pc \in {"commit_fast_unlock", "commit_grow_swap"}
          /\ execbuffer'.buffer.id # execbuffer.buffer.id =>
                 pc = "commit_grow_swap"
       ]_vars
    /\ [](pc \in FastPcs => buf_end <= map_len /\ buf_end <= MapSize)
    /\ [](pc \in GrowPcs => buf_end > MapSize)

\* C21, witness: a second growth commit is at its return: its mapping is
\* twice the size of the one it replaced, which had itself been sized by
\* buf_end, and holds that one's bytes before the byte just committed.
C21_Witness ==
    /\ pc = "commit_ret"
    /\ execbuffer.buffer.id = 3
    /\ buf_start = 5
    /\ buf_end = 6
    /\ MapSize = 10
    /\ execbuffer.length = 6
    /\ SubSeq(execbuffer.buffer.bytes, 1, 5) \in LongArgs

\* No commit, alter or finalize is in progress and none has panicked.
AtRest == pc \in {"idle", "finalize_err", "finalized"}

InCall == pc \notin {"idle", "finalized", "finalize_err", "panicked"}
\* The places where the Assembler thread waits in RwLock::write.
LockPcs == {"commit_grow_lock", "commit_fast_lock", "alter_lock"}

\* C23, as stated: if every Executor's read guard is always eventually
\* released, every call of commit, alter and finalize eventually returns or
\* fails.
C23_Stated ==
    (\A e \in ExecutorIds : []<>(e \notin ReadGuards)) => []<>(~InCall)

\* C23, amended: if from some point on no read guard is held, every call
\* of commit, alter and finalize eventually returns or fails; so a call that
\* never returns is one during which read guards are held again and again
\* without end, and it then waits in RwLock::write.
C23_Progress ==
    /\ <>[](ReadGuards = {}) => []<>(~InCall)
    /\ <>[](InCall) => <>[](pc \in LockPcs)

\* C23, witness: alter waits in RwLock::write for a read guard to go.
C23_Witness ==
    /\ pc = "alter_lock"
    /\ ReadGuards # {}
    /\ ~rwlock.writer
====
